---- MODULE Spec2Model ----
(***************************************************************************)
(* Model of generate.py: the commit wall art generator.  One run of main() *)
(* is a state machine whose position is pc; the external collaborators     *)
(* (pyfiglet's rendering, git add, git commit) are nondeterministic        *)
(* inputs.  Dates are proleptic Gregorian ordinals, as in Python's         *)
(* datetime (0001-01-01 is day 1, a Monday).                               *)
(***************************************************************************)
EXTENDS Integers, Sequences, FiniteSets, TLC

VARIABLES cfg, pc, exit, start, end_date, sunday0, commits_per_day,
          entry_idx, cols, start_seg, end_seg, col_idx,
          art, width, col, row, d_date, i,
          file, out, staged, commits, failed, last

vars == <<cfg, pc, exit, start, end_date, sunday0, commits_per_day,
          entry_idx, cols, start_seg, end_seg, col_idx,
          art, width, col, row, d_date, i,
          file, out, staged, commits, failed, last>>

(***************************************************************************)
(* Bounds of the model.                                                    *)
(***************************************************************************)
NumStarts == 7      \* start_date ranges over 2024-01-01 .. 2024-01-NumStarts
MaxCpd    == 2      \* largest configured commits_per_day
MaxRows   == 8      \* most rows the renderer returns
MaxFailed == 2      \* most git commit failures in one run

\* the grid has 7 rows, one per weekday
Height == 7

\* None (end_date absent) and a missing key of a manual entry
NoDate == <<>>

(***************************************************************************)
(* Calendar arithmetic of datetime: ISO date <<y, m, d>> to ordinal and    *)
(* back, and weekday() with Monday = 0 .. Sunday = 6.                      *)
(***************************************************************************)
IsLeap(y) == (y % 4 = 0) /\ ((y % 100 # 0) \/ (y % 400 = 0))

DaysBeforeYear(y) ==
    LET p == y - 1 IN p * 365 + (p \div 4) - (p \div 100) + (p \div 400)

DaysInMonth(y, m) ==
    IF m = 2 THEN (IF IsLeap(y) THEN 29 ELSE 28)
    ELSE IF m \in {4, 6, 9, 11} THEN 30 ELSE 31

RECURSIVE DaysBeforeMonth(_, _)
DaysBeforeMonth(y, m) ==
    IF m = 1 THEN 0 ELSE DaysBeforeMonth(y, m - 1) + DaysInMonth(y, m - 1)

\* datetime.fromisoformat(s).date(), as an ordinal
FromISO(ymd) == DaysBeforeYear(ymd[1]) + DaysBeforeMonth(ymd[1], ymd[2]) + ymd[3]

\* str(d_date): the ISO fields of an ordinal
ToISO(n) ==
    LET y == CHOOSE yy \in (n \div 366)..((n \div 365) + 1) :
                 DaysBeforeYear(yy) < n /\ n <= DaysBeforeYear(yy + 1)
        r == n - DaysBeforeYear(y)
        m == CHOOSE mm \in 1..12 :
                 DaysBeforeMonth(y, mm) < r /\ r <= DaysBeforeMonth(y, mm) + DaysInMonth(y, mm)
    IN  <<y, m, r - DaysBeforeMonth(y, m)>>

Weekday(n) == (n + 6) % 7

(***************************************************************************)
(* Grid alignment (lines 59-61) and the date of a cell (lines 80, 134).    *)
(***************************************************************************)
AlignMonday(s) == s - (Weekday(s) % 7)

Align(s) == s - ((Weekday(s) + 1) % 7)

CellDateSwapped(origin, c, r) == origin + 7 * r + c

CellDate(origin, c, r) == origin + 7 * c + r

(***************************************************************************)
(* The filters of the two loops.                                           *)
(***************************************************************************)
\* line 83: the manual loop keeps d iff it lies in the entry's window
InEntryWindow(d, s, e) == ~(d < s \/ d > e)

InGlobalWindowStrict(d, s, e) == ~(d <= s) /\ ~(e # <<>> /\ d >= e[1])

\* lines 137-138: the glyph loop keeps d iff it lies in the global window
\* (end_date is <<>> for None, <<ordinal>> otherwise)
InGlobalWindow(d, s, e) == ~(d < s) /\ ~(e # <<>> /\ d > e[1])

(***************************************************************************)
(* Normalisation of the rendered rows (lines 122-129).                     *)
(***************************************************************************)
Max(S) == CHOOSE x \in S : \A y \in S : y <= x

Blank(w) == [k \in 1..w |-> " "]

Repeat(x, n) == [k \in 1..n |-> x]

\* str.ljust(w)
LJust(line, w) == IF Len(line) >= w THEN line ELSE line \o Blank(w - Len(line))

ArtWidth(raw) == IF raw = <<>> THEN 0 ELSE Max({Len(raw[k]) : k \in 1..Len(raw)})

NormalizeTopHeavy(raw) ==
    LET w == ArtWidth(raw)
        padded ==
            IF Len(raw) < Height
            THEN LET pad == Height - Len(raw)
                     top == pad - (pad \div 2)
                 IN  Repeat(Blank(w), top) \o raw \o Repeat(Blank(w), pad - top)
            ELSE IF Len(raw) > Height
            THEN SubSeq(raw, 1, Height)
            ELSE raw
    IN  [k \in 1..Len(padded) |-> LJust(padded[k], w)]

Normalize(raw) ==
    LET w == ArtWidth(raw)
        padded ==
            IF Len(raw) < Height
            THEN LET pad == Height - Len(raw)
                     top == pad \div 2
                 IN  Repeat(Blank(w), top) \o raw \o Repeat(Blank(w), pad - top)
            ELSE IF Len(raw) > Height
            THEN SubSeq(raw, 1, Height)
            ELSE raw
    IN  [k \in 1..Len(padded) |-> LJust(padded[k], w)]

(***************************************************************************)
(* The lines written to the content file (lines 100, 154) and the          *)
(* progress lines printed after a unit's commits (lines 111, 163).         *)
(***************************************************************************)
ManualLine(d, r, c, n, of, e) ==
    [kind |-> "pos", date |-> ToISO(d), row |-> r, col |-> c, ch |-> "",
     n |-> n, of |-> of, entry |-> e]

GlyphLine(d, r, c, x, n, of) ==
    [kind |-> "art", date |-> ToISO(d), row |-> r, col |-> c, ch |-> x,
     n |-> n, of |-> of, entry |-> 0 - 1]

Tick(d, r, c, e) == [date |-> ToISO(d), row |-> r, col |-> c, entry |-> e]

(***************************************************************************)
(* What the two exception paths of the emission loop do: git add runs with *)
(* check=True outside any try (lines 102, 156), so its failure ends the    *)
(* run; the failure of git commit is caught and printed (lines 105-108,    *)
(* 159-160), and the for loop goes on.                                     *)
(***************************************************************************)
OnStageError(back) == [pc |-> "exit", exit |-> "stage_error"]

OnCommitErrorRaise(back) == [pc |-> "exit", exit |-> "commit_error"]

OnCommitError(back) == [pc |-> back, exit |-> "running"]

(***************************************************************************)
(* Configurations.                                                         *)
(***************************************************************************)
StartDates == {<<2024, 1, d>> : d \in 1..NumStarts}

EndDates == {NoDate, <<2024, 1, 3>>, <<2024, 1, 9>>}

CpdValues == (0 - 1)..MaxCpd

\* rendered rows of 7 x 2 cells: column 0 full and column 1 blank, both
\* columns full, and a chequered pattern
ArtGrids ==
    { Repeat(<<"#", " ">>, Height), Repeat(<<"#", "#">>, Height),
      [k \in 1..Height |-> IF k % 2 = 1 THEN <<"#", " ">> ELSE <<" ", "x">>] }

\* rendered rows of any count and of unequal lengths: r rows, all a but row p
RowSet == {<<>>, <<"#">>, <<" ", "#">>}

ArtShapes ==
    {<<>>} \cup
    UNION { { [k \in 1..r |-> IF k = p THEN b ELSE a] :
                p \in 1..r, a \in RowSet, b \in RowSet } : r \in 1..MaxRows }

Windows ==
    { <<(<<2023, 12, 31>>), (<<2024, 1, 2>>)>>,
      <<(<<2024, 1, 6>>), (<<2024, 1, 8>>)>>,
      <<NoDate, (<<2024, 1, 8>>)>>,
      <<(<<2024, 1, 6>>), NoDate>>,
      <<(<<2024, 1, 8>>), (<<2024, 1, 6>>)>> }

ColLists == {<<0>>, <<0, 1>>, <<1, 0>>, <<0, 0>>}

Entries ==
    { [cols |-> c, start_date |-> w[1], end_date |-> w[2]] :
        c \in ColLists, w \in Windows }

FirstEntries ==
    { [cols |-> c, start_date |-> <<2024, 1, 6>>, end_date |-> <<2024, 1, 8>>] :
        c \in {<<1>>, <<0, 1>>} }

ManualLists ==
    { <<e>> : e \in Entries } \cup
    { <<f, e>> : f \in FirstEntries, e \in Entries }

ManualStartDates == {<<2024, 1, 1>>, <<2024, 1, 4>>}

Config(s, e, n, m, r) ==
    [start_date |-> s, end_date |-> e, commits_per_day |-> n,
     manual_positions |-> m, rendered |-> r]

GlyphDateConfigs ==
    { Config(s, e, n, <<>>, a) :
        s \in StartDates, e \in EndDates, n \in CpdValues, a \in ArtGrids }

GlyphShapeConfigs ==
    { Config(<<2024, 1, 1>>, NoDate, 1, <<>>, a) : a \in ArtShapes }

ManualConfigs ==
    { Config(s, e, n, m, <<>>) :
        s \in ManualStartDates, e \in {NoDate, <<2024, 1, 7>>},
        n \in CpdValues, m \in ManualLists }

Configs == GlyphDateConfigs \cup GlyphShapeConfigs \cup ManualConfigs

(***************************************************************************)
(* The run.                                                                *)
(***************************************************************************)
setupv == <<start, end_date, sunday0, commits_per_day>>
manv   == <<entry_idx, cols, start_seg, end_seg, col_idx>>
glyphv == <<art, width>>
loopv  == <<col, row, d_date, i>>
gitv   == <<file, out, staged, commits, failed, last>>

Init ==
    /\ cfg \in Configs
    /\ pc = "main"
    /\ exit = "running"
    /\ start = 0 /\ end_date = <<>> /\ sunday0 = 0 /\ commits_per_day = 0
    /\ entry_idx = 0 /\ cols = <<>> /\ start_seg = 0 /\ end_seg = 0 /\ col_idx = 0
    /\ art = <<>> /\ width = 0
    /\ col = 0 /\ row = 0 /\ d_date = 0 /\ i = 0
    /\ file = <<>> /\ out = <<>>
    /\ staged = 0 /\ commits = 0 /\ failed = 0 /\ last = "none"

\* lines 40-69: read the configuration, align the grid, choose the mode
Setup ==
    /\ pc = "main"
    /\ start' = FromISO(cfg.start_date)
    /\ end_date' = IF cfg.end_date # NoDate THEN <<FromISO(cfg.end_date)>> ELSE <<>>
    /\ sunday0' = Align(FromISO(cfg.start_date))
    /\ commits_per_day' = cfg.commits_per_day
    /\ pc' = IF cfg.manual_positions # <<>> THEN "m_entry" ELSE "render"
    /\ UNCHANGED <<cfg, exit, manv, glyphv, loopv, gitv>>

\* lines 71-76 and 112-113: the next manual entry, or the end of the list
ManualEntry ==
    /\ pc = "m_entry"
    /\ IF entry_idx >= Len(cfg.manual_positions)
       THEN /\ pc' = "exit" /\ exit' = "manual_processed"
            /\ UNCHANGED <<cols, start_seg, end_seg, col_idx>>
       ELSE LET entry == cfg.manual_positions[entry_idx + 1] IN
            IF entry.start_date = NoDate \/ entry.end_date = NoDate
            THEN /\ pc' = "exit" /\ exit' = "key_error"
                 /\ UNCHANGED <<cols, start_seg, end_seg, col_idx>>
            ELSE /\ cols' = entry.cols
                 /\ start_seg' = FromISO(entry.start_date)
                 /\ end_seg' = FromISO(entry.end_date)
                 /\ col_idx' = 0
                 /\ pc' = "m_col" /\ UNCHANGED exit
    /\ UNCHANGED <<cfg, setupv, entry_idx, glyphv, loopv, gitv>>

\* line 78: the next column of the entry
ManualCol ==
    /\ pc = "m_col"
    /\ IF col_idx >= Len(cols)
       THEN /\ entry_idx' = entry_idx + 1 /\ pc' = "m_entry"
            /\ UNCHANGED <<col, row>>
       ELSE /\ col' = cols[col_idx + 1] /\ row' = 0 /\ pc' = "m_row"
            /\ UNCHANGED entry_idx
    /\ UNCHANGED <<cfg, exit, setupv, cols, start_seg, end_seg, col_idx,
                   glyphv, d_date, i, gitv>>

\* lines 79-84: the next row of the column, kept or skipped
ManualRow ==
    /\ pc = "m_row"
    /\ IF row >= Height
       THEN /\ col_idx' = col_idx + 1 /\ pc' = "m_col"
            /\ UNCHANGED <<row, d_date, i>>
       ELSE LET d == CellDate(sunday0, col, row) IN
            IF ~InEntryWindow(d, start_seg, end_seg)
            THEN /\ row' = row + 1 /\ UNCHANGED <<pc, col_idx, d_date, i>>
            ELSE /\ d_date' = d /\ i' = 0 /\ pc' = "m_i"
                 /\ UNCHANGED <<row, col_idx>>
    /\ UNCHANGED <<cfg, exit, setupv, entry_idx, cols, start_seg, end_seg,
                   glyphv, col, gitv>>

\* lines 98-100 and 111: append the sub-event's line, or finish the unit
ManualWrite ==
    /\ pc = "m_i"
    /\ IF i >= commits_per_day
       THEN /\ out' = Append(out, Tick(d_date, row, col, entry_idx))
            /\ row' = row + 1 /\ pc' = "m_row"
            /\ UNCHANGED file
       ELSE /\ file' = Append(file, ManualLine(d_date, row, col, i + 1,
                                                commits_per_day, entry_idx))
            /\ pc' = "m_add"
            /\ UNCHANGED <<out, row>>
    /\ UNCHANGED <<cfg, exit, setupv, manv, glyphv, col, d_date, i,
                   staged, commits, failed, last>>

\* line 102: git add
ManualAdd ==
    /\ pc = "m_add"
    /\ \E ok \in BOOLEAN :
         IF ok
         THEN /\ staged' = staged + 1 /\ last' = "add_ok"
              /\ pc' = "m_commit" /\ UNCHANGED exit
         ELSE /\ last' = "add_failed"
              /\ pc' = OnStageError("m_commit").pc
              /\ exit' = OnStageError("m_commit").exit
              /\ UNCHANGED staged
    /\ UNCHANGED <<cfg, setupv, manv, glyphv, loopv, file, out, commits, failed>>

\* lines 103-108: git commit
ManualCommit ==
    /\ pc = "m_commit"
    /\ \E ok \in BOOLEAN :
         /\ ok \/ failed < MaxFailed
         /\ IF ok
            THEN /\ commits' = commits + 1 /\ last' = "commit_ok"
                 /\ i' = i + 1 /\ pc' = "m_i"
                 /\ UNCHANGED <<exit, failed>>
            ELSE /\ failed' = failed + 1 /\ last' = "commit_failed"
                 /\ pc' = OnCommitError("m_i").pc
                 /\ exit' = OnCommitError("m_i").exit
                 /\ i' = IF OnCommitError("m_i").pc = "m_i" THEN i + 1 ELSE i
                 /\ UNCHANGED commits
    /\ UNCHANGED <<cfg, setupv, manv, glyphv, col, row, d_date, file, out, staged>>

\* lines 116-129: render the message and normalise the rows
GlyphRender ==
    /\ pc = "render"
    /\ IF cfg.rendered = <<>>
       THEN /\ pc' = "exit" /\ exit' = "figlet_error"
            /\ UNCHANGED <<art, width, col>>
       ELSE /\ art' = Normalize(cfg.rendered)
            /\ width' = ArtWidth(cfg.rendered)
            /\ col' = 0
            /\ pc' = "g_col" /\ UNCHANGED exit
    /\ UNCHANGED <<cfg, setupv, manv, row, d_date, i, gitv>>

\* lines 131 and 164: the next column of the matrix, or the end
GlyphCol ==
    /\ pc = "g_col"
    /\ IF col >= width
       THEN /\ pc' = "exit" /\ exit' = "figlet_processed" /\ UNCHANGED row
       ELSE /\ row' = 0 /\ pc' = "g_row" /\ UNCHANGED exit
    /\ UNCHANGED <<cfg, setupv, manv, glyphv, col, d_date, i, gitv>>

\* lines 132-138: the next cell of the column, kept or skipped
GlyphRow ==
    /\ pc = "g_row"
    /\ IF row >= Height
       THEN /\ col' = col + 1 /\ pc' = "g_col"
            /\ UNCHANGED <<row, d_date, i>>
       ELSE LET d == CellDate(sunday0, col, row) IN
            IF art[row + 1][col + 1] = " " \/ ~InGlobalWindow(d, start, end_date)
            THEN /\ row' = row + 1 /\ UNCHANGED <<pc, col, d_date, i>>
            ELSE /\ d_date' = d /\ i' = 0 /\ pc' = "g_i"
                 /\ UNCHANGED <<row, col>>
    /\ UNCHANGED <<cfg, exit, setupv, manv, glyphv, gitv>>

\* lines 152-154 and 163: append the sub-event's line, or finish the unit
GlyphWrite ==
    /\ pc = "g_i"
    /\ IF i >= commits_per_day
       THEN /\ out' = Append(out, Tick(d_date, row, col, 0 - 1))
            /\ row' = row + 1 /\ pc' = "g_row"
            /\ UNCHANGED file
       ELSE /\ file' = Append(file, GlyphLine(d_date, row, col,
                                               art[row + 1][col + 1], i + 1,
                                               commits_per_day))
            /\ pc' = "g_add"
            /\ UNCHANGED <<out, row>>
    /\ UNCHANGED <<cfg, exit, setupv, manv, glyphv, col, d_date, i,
                   staged, commits, failed, last>>

\* line 156: git add
GlyphAdd ==
    /\ pc = "g_add"
    /\ \E ok \in BOOLEAN :
         IF ok
         THEN /\ staged' = staged + 1 /\ last' = "add_ok"
              /\ pc' = "g_commit" /\ UNCHANGED exit
         ELSE /\ last' = "add_failed"
              /\ pc' = OnStageError("g_commit").pc
              /\ exit' = OnStageError("g_commit").exit
              /\ UNCHANGED staged
    /\ UNCHANGED <<cfg, setupv, manv, glyphv, loopv, file, out, commits, failed>>

\* lines 157-160: git commit
GlyphCommit ==
    /\ pc = "g_commit"
    /\ \E ok \in BOOLEAN :
         /\ ok \/ failed < MaxFailed
         /\ IF ok
            THEN /\ commits' = commits + 1 /\ last' = "commit_ok"
                 /\ i' = i + 1 /\ pc' = "g_i"
                 /\ UNCHANGED <<exit, failed>>
            ELSE /\ failed' = failed + 1 /\ last' = "commit_failed"
                 /\ pc' = OnCommitError("g_i").pc
                 /\ exit' = OnCommitError("g_i").exit
                 /\ i' = IF OnCommitError("g_i").pc = "g_i" THEN i + 1 ELSE i
                 /\ UNCHANGED commits
    /\ UNCHANGED <<cfg, setupv, manv, glyphv, col, row, d_date, file, out, staged>>

Next ==
    \/ Setup
    \/ ManualEntry \/ ManualCol \/ ManualRow
    \/ ManualWrite \/ ManualAdd \/ ManualCommit
    \/ GlyphRender \/ GlyphCol \/ GlyphRow
    \/ GlyphWrite \/ GlyphAdd \/ GlyphCommit

Spec == Init /\ [][Next]_vars

(***************************************************************************)
(* Vocabulary of the properties.                                           *)
(***************************************************************************)
GlyphMode == cfg.manual_positions = <<>>

Processed == exit \in {"manual_processed", "figlet_processed"}

LineDay(k) == FromISO(file[k].date)

SameUnit(a, b) ==
    /\ file[a].entry = file[b].entry /\ file[a].col = file[b].col
    /\ file[a].row = file[b].row /\ file[a].date = file[b].date

ActiveCells == {rc \in (0..(Height - 1)) \X (0..(width - 1)) : art[rc[1] + 1][rc[2] + 1] # " "}

Malformed(e) ==
    \/ e.start_date = NoDate
    \/ e.end_date = NoDate
    \/ FromISO(e.end_date) < FromISO(e.start_date)

Scenario == Config(<<2024, 1, 1>>, NoDate, 1, <<>>, Repeat(<<"#", " ">>, Height))

C2_ManualWithinBothWindows ==
    ~GlyphMode =>
      \A k \in 1..Len(file) :
         LET e == cfg.manual_positions[file[k].entry + 1] IN
         /\ FromISO(e.start_date) <= LineDay(k) /\ LineDay(k) <= FromISO(e.end_date)
         /\ FromISO(cfg.start_date) <= LineDay(k)
         /\ cfg.end_date # NoDate => LineDay(k) <= FromISO(cfg.end_date)

(***************************************************************************)
(* C3.  In glyph mode a cell (row, col) of the normalised matrix yields a  *)
(* unit iff its character is not a space and its date origin + 7*col + row *)
(* is on or after start_date and, when end_date is set, on or before it;   *)
(* the unit carries exactly that date (origin 2024-01-07, row 2, col 1:    *)
(* 2024-01-16).                                                            *)
(***************************************************************************)
C3_GlyphUnitIffActiveInWindow ==
    GlyphMode =>
      /\ \A k \in 1..Len(out) :
            LET d == sunday0 + 7 * out[k].col + out[k].row IN
            /\ out[k].date = ToISO(d)
            /\ art[out[k].row + 1][out[k].col + 1] # " "
            /\ FromISO(cfg.start_date) <= d
            /\ cfg.end_date # NoDate => d <= FromISO(cfg.end_date)
            /\ (sunday0 = FromISO(<<2024, 1, 7>>) /\ out[k].row = 2 /\ out[k].col = 1)
                 => out[k].date = <<2024, 1, 16>>
      /\ exit = "figlet_processed" =>
            \A r \in 0..(Height - 1), c \in 0..(width - 1) :
               LET d == sunday0 + 7 * c + r IN
               (\E k \in 1..Len(out) : out[k].row = r /\ out[k].col = c)
                 <=> (/\ art[r + 1][c + 1] # " "
                      /\ FromISO(cfg.start_date) <= d
                      /\ (cfg.end_date = NoDate \/ d <= FromISO(cfg.end_date)))

C3_Witness ==
    /\ GlyphMode /\ exit = "figlet_processed"
    /\ cfg.end_date # NoDate /\ sunday0 < start
    /\ \E k \in 1..Len(out) : out[k].date = cfg.start_date
    /\ \E k \in 1..Len(out) : out[k].date = cfg.end_date
    /\ Len(out) < Cardinality(ActiveCells)

(***************************************************************************)
(* C4.  As stated: start_date 2024-01-01, no end_date, one commit per day, *)
(* a 7 x 2 matrix with column 0 full and column 1 blank: exactly 7 units,  *)
(* dated origin+0 .. origin+6, none from column 1.                         *)
(***************************************************************************)
C4_ScenarioSevenUnits ==
    (cfg = Scenario /\ exit = "figlet_processed") =>
      /\ Len(out) = 7
      /\ \A k \in 1..Len(out) :
            out[k].date = ToISO(sunday0 + (k - 1)) /\ out[k].col = 0

(***************************************************************************)
(* C4, amended.  In that scenario the origin is 2023-12-31, the day before *)
(* start_date, so its cell is outside the window: exactly 6 units, dated   *)
(* origin+1 .. origin+6 (2024-01-01 .. 2024-01-06), none from column 1.    *)
(***************************************************************************)
C4_ScenarioSixUnits ==
    (cfg = Scenario /\ exit = "figlet_processed") =>
      /\ sunday0 = FromISO(<<2023, 12, 31>>)
      /\ Len(out) = 6 /\ Len(file) = 6
      /\ \A k \in 1..Len(out) :
            /\ out[k].date = ToISO(sunday0 + k) /\ out[k].date = <<2024, 1, k>>
            /\ out[k].row = k /\ out[k].col = 0

C4_Witness == cfg = Scenario /\ exit = "figlet_processed" /\ Len(out) > 0

(***************************************************************************)
(* C5.  The grid origin is a Sunday, on or before the start date and fewer *)
(* than 7 days before it; a start date that is a Sunday is its own origin. *)
(***************************************************************************)
C5_OriginIsSundayOnOrBeforeStart ==
    pc # "main" =>
      /\ start = FromISO(cfg.start_date)
      /\ Weekday(sunday0) = 6
      /\ (sunday0 - FromISO(<<2023, 12, 31>>)) % 7 = 0
      /\ 0 <= start - sunday0 /\ start - sunday0 < 7
      /\ Weekday(start) = 6 => sunday0 = start

C5_Witness == pc # "main" /\ start - sunday0 = 6

(***************************************************************************)
(* C6.  Normalisation of r >= 1 rendered rows: 7 rows, all as wide as the  *)
(* longest input row; for r < 7, floor((7-r)/2) blank rows on top and the  *)
(* rest of the padding below, the input rows in between in order; for      *)
(* r > 7 the first 7 input rows; for r = 7 the rows themselves; rows       *)
(* change only by spaces added on the right.                               *)
(***************************************************************************)
IsBlankRow(line) == \A k \in 1..Len(line) : line[k] = " "

PaddedFrom(line, raw) ==
    /\ Len(line) >= Len(raw)
    /\ SubSeq(line, 1, Len(raw)) = raw
    /\ \A k \in (Len(raw) + 1)..Len(line) : line[k] = " "

C6_NormalizedMatrix ==
    (GlyphMode /\ pc \notin {"main", "render"} /\ cfg.rendered # <<>>) =>
      LET raw == cfg.rendered
          r   == Len(raw)
          w   == CHOOSE n \in {Len(raw[k]) : k \in 1..r} :
                   \A k \in 1..r : Len(raw[k]) <= n
          top == (7 - r) \div 2
      IN  /\ Len(art) = 7
          /\ width = w
          /\ \A k \in 1..7 : Len(art[k]) = w
          /\ r < 7 =>
               /\ \A k \in 1..top : IsBlankRow(art[k])
               /\ \A k \in 1..r : PaddedFrom(art[top + k], raw[k])
               /\ \A k \in (top + r + 1)..7 : IsBlankRow(art[k])
               /\ 7 - (top + r) >= top /\ 7 - (top + r) <= top + 1
          /\ r >= 7 => \A k \in 1..7 : PaddedFrom(art[k], raw[k])

C6_Witness ==
    /\ GlyphMode /\ pc = "g_col"
    /\ Len(cfg.rendered) = 4
    /\ cfg.rendered[1] = <<"#">> /\ cfg.rendered[2] = <<" ", "#">>
    /\ art[1] = <<" ", " ">> /\ art[2] = <<"#", " ">> /\ art[6] = <<" ", " ">>

(***************************************************************************)
(* C7.  Every unit gets exactly commits_per_day sub-events, consecutive,   *)
(* numbered 1..N; each appends one line before its checkpoint is asked     *)
(* for, and that line differs from every line appended before it in the    *)
(* run.                                                                    *)
(***************************************************************************)
C7_NumberedInOrder ==
    \A k \in 1..Len(file) :
       /\ file[k].of = commits_per_day
       /\ file[k].n \in 1..commits_per_day
       /\ file[k].n > 1 => (k > 1 /\ SameUnit(k - 1, k) /\ file[k - 1].n = file[k].n - 1)
       /\ (file[k].n = 1 /\ k > 1) => file[k - 1].n = commits_per_day

C7_ExactlyNPerUnit ==
    /\ Processed => Len(file) = Len(out) * (IF commits_per_day > 0 THEN commits_per_day ELSE 0)
    /\ Len(file) >= Len(out) * (IF commits_per_day > 0 THEN commits_per_day ELSE 0)

C7_AppendBeforeCheckpoint ==
    /\ staged <= Len(file) /\ Len(file) <= staged + 1
    /\ commits + failed <= staged /\ staged <= commits + failed + 1
    /\ pc \in {"m_commit", "g_commit"} => (Len(file) = staged /\ staged = commits + failed + 1)

C7_LinesDistinct ==
    \A a, b \in 1..Len(file) : a < b => file[a] # file[b]

C7_SubEventsNumberedAndDistinct ==
    /\ C7_NumberedInOrder
    /\ C7_ExactlyNPerUnit
    /\ C7_AppendBeforeCheckpoint
    /\ C7_LinesDistinct

(***************************************************************************)
(* C8.  A failed git add ends the run where it happens: nothing later is   *)
(* appended, staged or committed, and what was done before stays.  A       *)
(* failed git commit does not end it: whatever the outcome of a commit,    *)
(* the loop goes on to the next sub-event, and a run that reaches its end  *)
(* has appended and staged every sub-event of every unit, whatever the     *)
(* number of failed commits.                                               *)
(***************************************************************************)
C8_StageFailureAborts ==
    /\ last = "add_failed" =>
         /\ pc = "exit" /\ exit = "stage_error"
         /\ Len(file) = staged + 1 /\ commits + failed = staged
    /\ exit = "stage_error" => last = "add_failed"

C8_CommitStep ==
    pc \in {"m_commit", "g_commit"} =>
      /\ pc' = (IF pc = "m_commit" THEN "m_i" ELSE "g_i")
      /\ exit' = "running"
      /\ i' = i + 1
      /\ file' = file /\ staged' = staged
      /\ commits' + failed' = commits + failed + 1

C8_AddStep ==
    (pc \in {"m_add", "g_add"} /\ last' = "add_failed") =>
      /\ pc' = "exit"
      /\ file' = file /\ staged' = staged /\ commits' = commits /\ failed' = failed

C8_RunCompletesDespiteFailures ==
    Processed =>
      /\ Len(file) = Len(out) * (IF commits_per_day > 0 THEN commits_per_day ELSE 0)
      /\ staged = Len(file)
      /\ commits + failed = Len(file)

C8_FailurePolicy ==
    /\ [](C8_StageFailureAborts /\ C8_RunCompletesDespiteFailures)
    /\ [][C8_CommitStep /\ C8_AddStep]_vars

C8_Witness ==
    /\ Processed /\ failed = MaxFailed /\ commits > 0
    /\ last = "commit_ok"

(***************************************************************************)
(* C9.  A commits_per_day of 0 or less is a fatal configuration error: no  *)
(* line is appended, nothing is staged or committed, and the run never     *)
(* ends as processed.                                                      *)
(***************************************************************************)
C9_NonPositiveMultiplicityIsFatal ==
    cfg.commits_per_day <= 0 =>
      /\ file = <<>> /\ staged = 0 /\ commits = 0
      /\ ~Processed

(***************************************************************************)
(* C10.  A malformed manual entry anywhere in the list (start_date or      *)
(* end_date missing, or end_date before start_date) fails the whole run    *)
(* before any mutation: nothing is appended, staged or committed, and the  *)
(* run ends in an error.                                                   *)
(***************************************************************************)
C10_MalformedEntryFailsFast ==
    (\E k \in 1..Len(cfg.manual_positions) : Malformed(cfg.manual_positions[k])) =>
      /\ file = <<>> /\ staged = 0 /\ commits = 0
      /\ pc = "exit" => exit = "key_error"

====
